---- MODULE Spec2Model ----
(***************************************************************************)
(* maker-file-index: the plugin-based indexing pipeline.                   *)
(*                                                                         *)
(*   resolve_inputs -> scan (plugin dispatch) -> main's emptiness check    *)
(*   -> write_markdown_report -> write_directory_pages                     *)
(*                                                                         *)
(* Strings are sequences of character codes, so that lower-casing, suffix  *)
(* tests, wildcard matching and string ordering are computed as Python     *)
(* computes them.  A path is the sequence of its components (file-name     *)
(* tokens); Chars gives each token's characters.  All paths are absolute,  *)
(* there are no symbolic links and no "." or ".." components, hence        *)
(* Path.resolve() and expanduser() leave the paths of the model as they    *)
(* are.                                                                    *)
(***************************************************************************)
EXTENDS Integers, Sequences, FiniteSets, TLC

VARIABLES
    disk,       \* the regular files: path -> [doc, bytes]
    args,       \* the command line: [target, recursive, output]
    registry,   \* what load_plugins() returns: the plugins in entry-point order
    pc,         \* where main is
    files,      \* scan: the list resolve_inputs returned
    idx,        \* scan: number of paths of files already dispatched
    records,    \* scan: the records appended so far
    calls,      \* every plugin.index call of this run: [plugin, path, ok, rec]
    exc,        \* the exception that ended main, "" when none
    all_dirs,   \* write_directory_pages: the directory set
    pages,      \* the directory pages written: page path -> [dir, subdirs, records]
    report,     \* the flat report written: <<>> until written, then <<records>>
    run,        \* which invocation of the command this is
    prev,       \* the outcome of the previous invocation
    xin,        \* extraction unit: the input of the call
    info        \* extraction unit: the LightBurnInfo returned

vars == <<disk, args, registry, pc, files, idx, records, calls, exc, all_dirs,
          pages, report, run, prev, xin, info>>

----------------------------------------------------------------------------
(* Strings *)

\* The characters of every file-name token of the model.
Chars(n) ==
    CASE n = "r" -> <<114>>
      [] n = "A" -> <<65>>
      [] n = "B" -> <<66>>
      [] n = "C" -> <<67>>
      [] n = "w" -> <<119>>
      [] n = "dirs" -> <<100, 105, 114, 115>>
      [] n = "a.stl" -> <<97, 46, 115, 116, 108>>
      [] n = "A.stl" -> <<65, 46, 115, 116, 108>>
      [] n = "b.SCAD" -> <<98, 46, 83, 67, 65, 68>>
      [] n = "p.lbrn2" -> <<112, 46, 108, 98, 114, 110, 50>>
      [] n = "p.lbrn" -> <<112, 46, 108, 98, 114, 110>>
      [] n = "p_thumbnail.png" ->
            <<112, 95, 116, 104, 117, 109, 98, 110, 97, 105, 108, 46, 112, 110, 103>>
      [] n = "p_thumbnail.jpg" ->
            <<112, 95, 116, 104, 117, 109, 98, 110, 97, 105, 108, 46, 106, 112, 103>>
      [] n = "p_thumbnail.gif" ->
            <<112, 95, 116, 104, 117, 109, 98, 110, 97, 105, 108, 46, 103, 105, 102>>
      [] n = "p_thumbnail.webp" ->
            <<112, 95, 116, 104, 117, 109, 98, 110, 97, 105, 108, 46, 119, 101, 98, 112>>
      [] n = "p_thumbnail.bin" ->
            <<112, 95, 116, 104, 117, 109, 98, 110, 97, 105, 108, 46, 98, 105, 110>>
      [] n = "README.md" -> <<82, 69, 65, 68, 77, 69, 46, 109, 100>>
      [] n = "README.txt" -> <<82, 69, 65, 68, 77, 69, 46, 116, 120, 116>>
      [] n = "index.md" -> <<105, 110, 100, 101, 120, 46, 109, 100>>
      [] n = "lightburn_notes.md" ->
            <<108, 105, 103, 104, 116, 98, 117, 114, 110, 95, 110, 111, 116, 101,
              115, 46, 109, 100>>
      [] n = "*" -> <<42>>
      [] n = "**" -> <<42, 42>>
      [] n = "*.stl" -> <<42, 46, 115, 116, 108>>

Names ==
    {"r", "A", "B", "C", "w", "dirs", "a.stl", "A.stl", "b.SCAD", "p.lbrn2",
     "p.lbrn", "p_thumbnail.png", "p_thumbnail.jpg", "p_thumbnail.gif",
     "p_thumbnail.webp", "p_thumbnail.bin", "README.md", "README.txt", "index.md",
     "lightburn_notes.md", "*", "**", "*.stl"}

\* The token whose characters are cs.
NameOf(cs) == CHOOSE n \in Names : Chars(n) = cs

\* str.lower() on one character, and on a string.
LowerChar(c) == IF c \in 65..90 THEN c + 32 ELSE c

Lower(s) == [i \in 1..Len(s) |-> LowerChar(s[i])]

\* Python's s < t on strings: by code point, a proper prefix first.
StrLess(s, t) ==
    \E k \in 1..(Len(t)) :
        /\ \A i \in 1..(k - 1) : i <= Len(s) /\ s[i] = t[i]
        /\ \/ k = Len(s) + 1
           \/ k <= Len(s) /\ s[k] < t[k]

\* s.endswith(t)
EndsWith(s, t) ==
    /\ Len(t) <= Len(s)
    /\ SubSeq(s, Len(s) - Len(t) + 1, Len(s)) = t

\* s.startswith(t)
StartsWith(s, t) ==
    /\ Len(t) <= Len(s)
    /\ SubSeq(s, 1, Len(t)) = t

\* s.rfind("."), 1-based; 0 when there is none.
RFindDot(s) ==
    LET at == {i \in 1..Len(s) : s[i] = 46}
    IN  IF at = {} THEN 0 ELSE CHOOSE i \in at : \A j \in at : j <= i

----------------------------------------------------------------------------
(* Paths (pathlib.PurePosixPath) *)

\* A dot splits a name into stem and suffix when it is neither the first nor
\* the last character.
HasSuffix(cs) == 1 < RFindDot(cs) /\ RFindDot(cs) < Len(cs)

\* PurePath.suffix of a name
SuffixOf(cs) == IF HasSuffix(cs) THEN SubSeq(cs, RFindDot(cs), Len(cs)) ELSE <<>>

\* PurePath.stem of a name
StemOf(cs) == IF HasSuffix(cs) THEN SubSeq(cs, 1, RFindDot(cs) - 1) ELSE cs

\* PurePath.name; the file-system root has the empty name.
PathName(p) == IF p = <<>> THEN <<>> ELSE Chars(p[Len(p)])

\* PurePath.parent; the file-system root is its own parent.
Parent(p) == IF p = <<>> THEN <<>> ELSE SubSeq(p, 1, Len(p) - 1)

\* str(path) of an absolute path
RECURSIVE PathStr(_)
PathStr(p) ==
    IF p = <<>> THEN <<47>>
    ELSE IF Len(p) = 1 THEN <<47>> \o Chars(p[1])
    ELSE PathStr(Parent(p)) \o <<47>> \o Chars(p[Len(p)])

\* d is base, or lies beneath it (PurePath.is_relative_to).
IsRelativeTo(d, base) == Len(base) <= Len(d) /\ SubSeq(d, 1, Len(base)) = base

\* d.relative_to(base), defined when IsRelativeTo(d, base): otherwise the call
\* raises ValueError.
RelativeTo(d, base) == SubSeq(d, Len(base) + 1, Len(d))

\* path.with_name(name)
WithName(p, cs) == Parent(p) \o <<NameOf(cs)>>

----------------------------------------------------------------------------
(* The file system *)

IsFile(d, p) == p \in DOMAIN d

\* A directory exists where a file lies beneath it.
IsDir(d, p) == \E f \in DOMAIN d : Len(f) > Len(p) /\ SubSeq(f, 1, Len(p)) = p

Exists(d, p) == IsFile(d, p) \/ IsDir(d, p)

\* Every entry of the file system: the files and the directories above them.
AllEntries(d) == UNION {{SubSeq(f, 1, k) : k \in 1..Len(f)} : f \in DOMAIN d}

\* Every entry (file or directory) beneath directory p.
Descendants(d, p) == {q \in AllEntries(d) : Len(q) > Len(p) /\ IsRelativeTo(q, p)}

\* The immediate children of directory p.
Children(d, p) == {q \in AllEntries(d) : Len(q) = Len(p) + 1 /\ IsRelativeTo(q, p)}

----------------------------------------------------------------------------
(* resolve_inputs *)

\* fnmatch of one name against one pattern component; "*" (42) is the only
\* wildcard character of the model's patterns.
RECURSIVE FnMatch(_, _)
FnMatch(pat, s) ==
    IF pat = <<>> THEN s = <<>>
    ELSE IF Head(pat) = 42
         THEN FnMatch(Tail(pat), s) \/ (s # <<>> /\ FnMatch(pat, Tail(s)))
         ELSE s # <<>> /\ Head(s) = Head(pat) /\ FnMatch(Tail(pat), Tail(s))

\* glob.glob(pattern, recursive=True) yields entry q: component by component,
\* a "**" component standing for any number of directory levels.
RECURSIVE GlobMatch(_, _)
GlobMatch(pat, q) ==
    IF pat = <<>> THEN q = <<>>
    ELSE IF Head(pat) = "**"
         THEN GlobMatch(Tail(pat), q) \/ (q # <<>> /\ GlobMatch(pat, Tail(q)))
         ELSE /\ q # <<>>
              /\ FnMatch(Chars(Head(pat)), Chars(Head(q)))
              /\ GlobMatch(Tail(pat), Tail(q))

\* The marker the resolver filters on: "_thumbnail.png".
ThumbnailPng == <<95, 116, 104, 117, 109, 98, 110, 97, 105, 108, 46, 112, 110, 103>>

\* The filter of both comprehensions: x.is_file() and not
\* x.name.endswith("_thumbnail.png").
KeepFile(d, x) == IsFile(d, x) /\ ~EndsWith(PathName(x), ThumbnailPng)

\* The sort key of resolve_inputs and of write_directory_pages: str(x).lower().
SortKey(x) == Lower(PathStr(x))

\* sorted(S, key=SortKey) for a set S.  sorted() is stable and a set is iterated
\* in an order that the hash seed of the process decides, so the result may be
\* any arrangement of S that is non-decreasing under the key: each is what the
\* stable sort returns when the set happens to be iterated in that order.
RECURSIVE SortedOrders(_)
SortedOrders(S) ==
    IF S = {} THEN {<<>>}
    ELSE LET least == {m \in S : \A x \in S : ~StrLess(SortKey(x), SortKey(m))}
         IN  UNION {{<<m>> \o t : t \in SortedOrders(S \ {m})} : m \in least}

\* The set resolve_inputs sorts, for each of its three kinds of target.
ResolveSet(d, target, recursive) ==
    IF Exists(d, target) /\ IsFile(d, target) THEN {target}
    ELSE IF Exists(d, target) /\ IsDir(d, target)
         THEN {x \in (IF recursive THEN Descendants(d, target)
                                   ELSE Children(d, target)) : KeepFile(d, x)}
         ELSE {m \in AllEntries(d) \cup {<<>>} : GlobMatch(target, m) /\ KeepFile(d, m)}

\* The lists resolve_inputs may return.
resolve_inputs(d, target, recursive) == SortedOrders(ResolveSet(d, target, recursive))

----------------------------------------------------------------------------
(* Laser-project documents (xml.etree.ElementTree) *)

\* An element.  A missing attribute and a missing text are the empty string:
\* the code reads both through "or ''" or a truth test, which do not tell
\* None from "".
Elem(tag, notesAttr, sourceAttr, text, children) ==
    [tag |-> tag, Notes |-> notesAttr, Source |-> sourceAttr, text |-> text,
     children |-> children]

Leaf(tag, notesAttr, sourceAttr, text) == Elem(tag, notesAttr, sourceAttr, text, <<>>)

\* Base64 payloads: of the PNG signature, of the JPEG signature, of GIF89a, of
\* "hello" (no known signature), each without its padding, and two that do not
\* decode.
B64Png == <<105, 86, 66, 79, 82, 119, 48, 75, 71, 103, 111>>
B64Jpg == <<47, 57, 106, 47>>
B64GifSpaced == <<32, 82, 48, 108, 71, 10, 79, 68, 108, 104, 32>>
B64Hello == <<97, 71, 86, 115, 98, 71, 56>>
B64NotAlphabet == <<33, 33>>
B64OneChar == <<97>>

TxtHello == <<104, 101, 108, 108, 111>>
TxtCrLf == <<32, 97, 13, 10, 98, 13, 32>>
TxtOnlyCr == <<13>>
TxtTop == <<116, 111, 112>>
TxtDeep == <<100, 101, 101, 112>>
TxtBlank == <<32, 10>>

DocIds ==
    {"png_notes", "attr_jpg", "nothumb", "badb64", "onechar", "second_thumb",
     "rootnotes", "nested", "hello_bin", "malformed", "bare", "blank_thumb"}

\* The parsed tree of each document; "malformed" does not parse.
DocRoot(id) ==
    CASE id = "png_notes" ->
            Elem("LightBurnProject", <<>>, <<>>, <<>>,
                 <<Leaf("Thumbnail", <<>>, B64Png, <<>>),
                   Leaf("Notes", <<>>, <<>>, TxtHello)>>)
      [] id = "attr_jpg" ->
            Elem("LightBurnProject", <<>>, <<>>, <<>>,
                 <<Leaf("Notes", TxtCrLf, <<>>, TxtHello),
                   Leaf("Thumbnail", <<>>, <<>>, B64Jpg)>>)
      [] id = "nothumb" ->
            Elem("LightBurnProject", <<>>, <<>>, <<>>,
                 <<Leaf("Notes", TxtBlank, <<>>, TxtCrLf)>>)
      [] id = "badb64" ->
            Elem("LightBurnProject", <<>>, <<>>, <<>>,
                 <<Leaf("Notes", <<>>, <<>>, TxtHello),
                   Leaf("Thumbnail", <<>>, B64NotAlphabet, <<>>)>>)
      [] id = "onechar" ->
            Elem("LightBurnProject", <<>>, <<>>, <<>>,
                 <<Leaf("Notes", <<>>, <<>>, TxtOnlyCr),
                   Leaf("Thumbnail", <<>>, <<>>, B64OneChar)>>)
      [] id = "second_thumb" ->
            Elem("LightBurnProject", <<>>, <<>>, <<>>,
                 <<Leaf("Thumbnail", TxtBlank, TxtBlank, TxtBlank),
                   Elem("Shape", <<>>, <<>>, <<>>,
                        <<Elem("Thumbnail", <<>>, <<>>, <<>>,
                               <<Leaf("Source", <<>>, <<>>, B64GifSpaced)>>)>>),
                   Leaf("Notes", TxtDeep, <<>>, <<>>)>>)
      [] id = "rootnotes" ->
            Elem("Notes", <<>>, <<>>, TxtTop, <<Leaf("Thumbnail", <<>>, B64Png, <<>>)>>)
      [] id = "nested" ->
            Elem("LightBurnProject", <<>>, <<>>, <<>>,
                 <<Elem("Shape", <<>>, <<>>, <<>>, <<Leaf("Notes", TxtDeep, <<>>, TxtTop)>>),
                   Leaf("Notes", <<>>, <<>>, TxtHello),
                   Leaf("Thumbnail", <<>>, B64Png, <<>>)>>)
      [] id = "hello_bin" ->
            Elem("Thumbnail", <<>>, B64Hello, <<>>, <<>>)
      [] id = "bare" ->
            Elem("LightBurnProject", <<>>, <<>>, <<>>, <<>>)
      [] id = "blank_thumb" ->
            Elem("LightBurnProject", <<>>, <<>>, <<>>,
                 <<Leaf("Notes", <<>>, <<>>, TxtHello),
                   Leaf("Thumbnail", <<>>, TxtBlank, <<>>)>>)
      [] id = "malformed" ->
            Elem("", <<>>, <<>>, <<>>, <<>>)

\* ET.parse succeeds
WellFormed(id) == id # "malformed"

\* Element.iter(): the element and its descendants in document order.
RECURSIVE Iter(_)
RECURSIVE IterAll(_)
Iter(el) == <<el>> \o IterAll(el.children)
IterAll(els) == IF els = <<>> THEN <<>> ELSE Iter(Head(els)) \o IterAll(Tail(els))

\* The elements of a sequence that carry the tag, in order.
WithTag(els, tag) == SelectSeq(els, LAMBDA e : e.tag = tag)

\* The white space str.strip() and str.split() remove.
Whitespace == {9, 10, 11, 12, 13, 28, 29, 30, 31, 32}

RECURSIVE LStrip(_)
LStrip(s) == IF s # <<>> /\ Head(s) \in Whitespace THEN LStrip(Tail(s)) ELSE s

RECURSIVE RStrip(_)
RStrip(s) ==
    IF s # <<>> /\ s[Len(s)] \in Whitespace THEN RStrip(SubSeq(s, 1, Len(s) - 1)) ELSE s

\* str.strip()
Strip(s) == RStrip(LStrip(s))

\* s.replace("\r\n", "\n").replace("\r", "\n"): a carriage return followed by a
\* line feed becomes one line feed, every other carriage return a line feed.
RECURSIVE NormalizeNewlines(_)
NormalizeNewlines(s) ==
    IF s = <<>> THEN <<>>
    ELSE IF Head(s) = 13
         THEN IF Len(s) > 1 /\ s[2] = 10
              THEN <<10>> \o NormalizeNewlines(Tail(Tail(s)))
              ELSE <<10>> \o NormalizeNewlines(Tail(s))
         ELSE <<Head(s)>> \o NormalizeNewlines(Tail(s))

----------------------------------------------------------------------------
(* plugins/lightburn.py *)

\* Path(""), the "no thumbnail" value of a record.
EmptyPath == <<".">>

\* LIKELY_EXTS: ".lbrn2" and ".lbrn"
LIKELY_EXTS == {<<46, 108, 98, 114, 110, 50>>, <<46, 108, 98, 114, 110>>}

is_likely_lightburn_project(d, path) ==
    IsFile(d, path) /\ Lower(SuffixOf(PathName(path))) \in LIKELY_EXTS

\* The payload one Thumbnail element offers: its Source attribute, else its own
\* text, else the text of its first Source child; empty when it offers none.
ThumbPayload(thumb) ==
    LET src == WithTag(thumb.children, "Source")
    IN  IF Strip(thumb.Source) # <<>> THEN Strip(thumb.Source)
        ELSE IF Strip(thumb.text) # <<>> THEN Strip(thumb.text)
        ELSE IF src # <<>> /\ Strip(src[1].text) # <<>> THEN Strip(src[1].text)
        ELSE <<>>

\* _find_thumbnail_b64: the payload of the first Thumbnail element, in document
\* order and the root included, that offers one; ok is FALSE where the code
\* raises ValueError("No thumbnail found...").
_find_thumbnail_b64(root) ==
    LET offers == SelectSeq(WithTag(Iter(root), "Thumbnail"),
                            LAMBDA t : ThumbPayload(t) # <<>>)
    IN  IF offers = <<>> THEN [ok |-> FALSE, b64 |-> <<>>]
        ELSE [ok |-> TRUE, b64 |-> ThumbPayload(offers[1])]

\* "".join(s.split())
RemoveWhitespace(s) == SelectSeq(s, LAMBDA c : c \notin Whitespace)

\* The value of a character of the base64 alphabet, -1 for any other.
B64Value(c) ==
    IF c \in 65..90 THEN c - 65
    ELSE IF c \in 97..122 THEN c - 71
    ELSE IF c \in 48..57 THEN c + 4
    ELSE IF c = 43 THEN 62
    ELSE IF c = 47 THEN 63
    ELSE -1

\* Byte k (from 1) of the decoding of the sextets v.
B64Byte(v, k) ==
    LET bit == 8 * (k - 1)
        i == (bit \div 6) + 1
        off == bit % 6
    IN  IF off = 0 THEN v[i] * 4 + (v[i + 1] \div 16)
        ELSE IF off = 2 THEN (v[i] % 16) * 16 + (v[i + 1] \div 4)
        ELSE (v[i] % 4) * 64 + v[i + 1]

\* _decode_b64 of a payload that carries no "=" of its own: white space is
\* removed and the padding added, and base64.b64decode(validate=True) then
\* accepts it when every character is of the alphabet and the number of
\* characters is not one more than a multiple of four; ok is FALSE where the
\* code raises ValueError("Thumbnail base64 decode failed...").
_decode_b64(data_b64) ==
    LET data == RemoveWhitespace(data_b64)
        v == [i \in 1..Len(data) |-> B64Value(data[i])]
    IN  IF (\E i \in 1..Len(data) : v[i] = -1) \/ Len(data) % 4 = 1
        THEN [ok |-> FALSE, blob |-> <<>>]
        ELSE [ok |-> TRUE,
              blob |-> [k \in 1..((Len(data) * 6) \div 8) |-> B64Byte(v, k)]]

ExtPng == <<46, 112, 110, 103>>
ExtJpg == <<46, 106, 112, 103>>
ExtGif == <<46, 103, 105, 102>>
ExtWebp == <<46, 119, 101, 98, 112>>
ExtBin == <<46, 98, 105, 110>>

\* blob[a:b] of Python, a and b counted from 0
Slice(blob, a, b) ==
    IF a >= Len(blob) THEN <<>>
    ELSE SubSeq(blob, a + 1, IF b < Len(blob) THEN b ELSE Len(blob))

_sniff_extension(blob) ==
    IF StartsWith(blob, <<137, 80, 78, 71, 13, 10, 26, 10>>) THEN ExtPng
    ELSE IF StartsWith(blob, <<255, 216, 255>>) THEN ExtJpg
    ELSE IF \/ StartsWith(blob, <<71, 73, 70, 56, 55, 97>>)
            \/ StartsWith(blob, <<71, 73, 70, 56, 57, 97>>) THEN ExtGif
    ELSE IF /\ StartsWith(blob, <<82, 73, 70, 70>>)
            /\ Slice(blob, 8, 12) = <<87, 69, 66, 80>> THEN ExtWebp
    ELSE ExtBin

\* "_thumbnail"
ThumbnailMarker == <<95, 116, 104, 117, 109, 98, 110, 97, 105, 108>>

\* input_path.with_name(f"{input_path.stem}_thumbnail{ext}")
ThumbnailOutputPath(input_path, ext) ==
    WithName(input_path, StemOf(PathName(input_path)) \o ThumbnailMarker \o ext)

\* What a file written by the tool holds.
Blob(bytes) == [doc |-> "", bytes |-> bytes]

\* extract_thumbnail raises e and writes nothing.
ThumbnailFails(d, e) == [exc |-> e, path |-> EmptyPath, disk |-> d]

\* WriteThumbnail without the existence test: the output is always written.
WriteThumbnailAlways(d, overwrite, blob, out) ==
    [exc |-> "", path |-> out,
     disk |-> [q \in DOMAIN d \cup {out} |-> IF q = out THEN Blob(blob) ELSE d[q]]]

\* extract_thumbnail from the existence test on: FileExistsError when the
\* output exists and may not be overwritten, else the bytes are written.
WriteThumbnail(d, overwrite, blob, out) ==
    IF Exists(d, out) /\ ~overwrite THEN ThumbnailFails(d, "FileExistsError")
    ELSE [exc |-> "", path |-> out,
          disk |-> [q \in DOMAIN d \cup {out} |-> IF q = out THEN Blob(blob) ELSE d[q]]]

\* extract_thumbnail once the payload dec is decoded (or not).
ThumbnailDecoded(d, input_path, overwrite, dec) ==
    IF ~dec.ok THEN ThumbnailFails(d, "ValueError: Thumbnail base64 decode failed")
    ELSE WriteThumbnail(d, overwrite, dec.blob,
                        ThumbnailOutputPath(input_path, _sniff_extension(dec.blob)))

\* extract_thumbnail once the payload found is found (or not).
ThumbnailFound(d, input_path, overwrite, found) ==
    IF ~found.ok THEN ThumbnailFails(d, "ValueError: No thumbnail found")
    ELSE ThumbnailDecoded(d, input_path, overwrite, _decode_b64(found.b64))

\* extract_thumbnail(input_path, None, overwrite) on file system d: the
\* exception raised ("" when none), the path returned and the file system left.
extract_thumbnail(d, input_path, overwrite) ==
    IF ~WellFormed(d[input_path].doc) THEN ThumbnailFails(d, "ParseError")
    ELSE ThumbnailFound(d, input_path, overwrite,
                        _find_thumbnail_b64(DocRoot(d[input_path].doc)))

LightBurnInfo(path, notes, thumbnail_path, error) ==
    [path |-> path, notes |-> notes, thumbnail_path |-> thumbnail_path,
     error |-> error]

\* The notes of a parsed document: of the first Notes element beneath the root
\* (root.find(".//Notes")), its stripped Notes attribute when that is not
\* empty, else its stripped text; then the newlines normalised and the result
\* stripped again.
NotesOf(root) ==
    LET els == WithTag(IterAll(root.children), "Notes")
        raw == IF els = <<>> THEN <<>>
               ELSE IF Strip(els[1].Notes) # <<>> THEN Strip(els[1].Notes)
               ELSE Strip(els[1].text)
    IN  Strip(NormalizeNewlines(raw))

\* extract_notes_and_thumbnail after the notes: whatever extract_thumbnail
\* raised (th.exc) is caught and leaves the thumbnail path blank and the error
\* empty.
NotesAndThumbnail(path, notes, th) ==
    [info |-> LightBurnInfo(path, notes, IF th.exc = "" THEN th.path ELSE EmptyPath, ""),
     disk |-> th.disk]

\* extract_notes_and_thumbnail: the LightBurnInfo returned and the file system
\* left.  The function itself reports only a document that does not parse.
extract_notes_and_thumbnail(d, path, overwrite_thumbnail) ==
    IF ~WellFormed(d[path].doc)
    THEN [info |-> LightBurnInfo(path, <<>>, EmptyPath, "XML parse error"), disk |-> d]
    ELSE NotesAndThumbnail(path, NotesOf(DocRoot(d[path].doc)),
                           extract_thumbnail(d, path, overwrite_thumbnail))

----------------------------------------------------------------------------
(* plugins/base.py, plugins/stl.py, plugins/scad.py, plugins/loader.py *)

\* The value standing for "no record" where a constructor raised.
NoRecord ==
    [path |-> EmptyPath, directory |-> EmptyPath, notes |-> <<>>,
     thumbnail_path |-> EmptyPath, error |-> ""]

\* The IndexRecord dataclass called with keyword arguments kw: path and
\* directory have no default, so a call without one of them raises TypeError
\* (ok is FALSE); notes, thumbnail_path and error default to "", Path("") and "".
IndexRecord(kw) ==
    IF {"path", "directory"} \subseteq DOMAIN kw
    THEN [ok |-> TRUE,
          rec |-> [path |-> kw.path,
                   directory |-> kw.directory,
                   notes |-> IF "notes" \in DOMAIN kw THEN kw.notes ELSE <<>>,
                   thumbnail_path |-> IF "thumbnail_path" \in DOMAIN kw
                                      THEN kw.thumbnail_path ELSE EmptyPath,
                   error |-> IF "error" \in DOMAIN kw THEN kw.error ELSE ""]]
    ELSE [ok |-> FALSE, rec |-> NoRecord]

\* What an index call leaves: the constructor's result r and the file system.
Indexed(r, d) == [ok |-> r.ok, rec |-> r.rec, disk |-> d]

\* The constructor call of LightBurnPlugin.index, on the LightBurnInfo.
LightBurnRecord(i) ==
    IndexRecord([path |-> i.path, notes |-> i.notes,
                 thumbnail_path |-> i.thumbnail_path, error |-> i.error])

\* LightBurnPlugin.index after the extraction x.
LightBurnIndexed(x) == Indexed(LightBurnRecord(x.info), x.disk)

\* LightBurnPlugin.index
LightBurnIndex(d, path) == LightBurnIndexed(extract_notes_and_thumbnail(d, path, TRUE))

\* STLPlugin.index
STLIndex(d, path) ==
    Indexed(IndexRecord([path |-> path, directory |-> Parent(path), notes |-> <<>>,
                         thumbnail_path |-> EmptyPath, error |-> ""]), d)

\* SCADPlugin.index
SCADIndex(d, path) ==
    Indexed(IndexRecord([path |-> path, directory |-> Parent(path), notes |-> <<>>,
                         thumbnail_path |-> EmptyPath, error |-> ""]), d)

PluginNames == {"lightburn", "stl", "scad"}

\* plugin.can_handle(path)
can_handle(plugin, d, path) ==
    CASE plugin = "lightburn" -> is_likely_lightburn_project(d, path)
      [] plugin = "stl" -> Lower(SuffixOf(PathName(path))) = <<46, 115, 116, 108>>
      [] plugin = "scad" -> Lower(SuffixOf(PathName(path))) = <<46, 115, 99, 97, 100>>

\* plugin.index(path)
index(plugin, d, path) ==
    CASE plugin = "lightburn" -> LightBurnIndex(d, path)
      [] plugin = "stl" -> STLIndex(d, path)
      [] plugin = "scad" -> SCADIndex(d, path)

\* load_plugins(): one instance per entry point, in the order the entry points
\* are listed, which the package metadata decides: any order of the three.
load_plugins ==
    {q \in [1..3 -> PluginNames] : \A i, j \in 1..3 : q[i] = q[j] => i = j}

----------------------------------------------------------------------------
(* indexer.py: group_by_directory and write_directory_pages *)

\* group_by_directory: each directory that owns a record, with its records in
\* the order of the list.
group_by_directory(recs) ==
    [d \in {recs[i].directory : i \in 1..Len(recs)} |->
        SelectSeq(recs, LAMBDA r : r.directory = d)]

\* WalkUp without its first exit: the walk does not end at root_dir and climbs
\* to the root of the file system.
WalkUpPastRoot(cur, root_dir) == {SubSeq(cur, 1, k) : k \in 0..Len(cur)}

\* The walk from one directory upwards: every directory visited is added; the
\* walk ends at root_dir, or at a directory that is its own parent.
RECURSIVE WalkUp(_, _)
WalkUp(cur, root_dir) ==
    {cur} \cup (IF cur = root_dir \/ Parent(cur) = cur THEN {}
                ELSE WalkUp(Parent(cur), root_dir))

\* AllDirs without the walk: the owning directories and root_dir only.
AllDirsNoWalk(recs, root_dir) == DOMAIN group_by_directory(recs) \cup {root_dir}

\* all_dirs after the loop over the directories that own a record.
AllDirs(recs, root_dir) ==
    UNION {WalkUp(d, root_dir) : d \in DOMAIN group_by_directory(recs)}

\* page_path_for_dir succeeds: d is root_dir or relative_to(root_dir) does not
\* raise ValueError.
PageOk(d, root_dir) == d = root_dir \/ IsRelativeTo(d, root_dir)

\* page_path_for_dir(d) = dirs_root / rel / "index.md"
page_path_for_dir(d, root_dir, out_dir) ==
    out_dir \o <<"dirs">> \o
    (IF d = root_dir THEN <<>> ELSE RelativeTo(d, root_dir)) \o <<"index.md">>

\* The README of a child directory: README.md before README.txt; EmptyPath
\* when it has neither.
ReadmePath(d, child) ==
    IF IsFile(d, child \o <<"README.md">>) THEN child \o <<"README.md">>
    ELSE IF IsFile(d, child \o <<"README.txt">>) THEN child \o <<"README.txt">>
    ELSE EmptyPath

\* The line boundaries of str.splitlines()
LineBreaks == {10, 11, 12, 13, 28, 29, 30, 133}

\* text.splitlines()[0].strip(), "" for the empty text
RECURSIVE FirstLine(_)
FirstLine(text) ==
    IF text = <<>> \/ Head(text) \in LineBreaks THEN <<>>
    ELSE <<Head(text)>> \o FirstLine(Tail(text))

ReadmeTitle(text) == Strip(FirstLine(text))

\* One entry of a page's subdirectory list.
SubdirEntry(d, child, page_dir, root_dir, out_dir) ==
    LET readme == ReadmePath(d, child)
    IN  [name |-> child[Len(child)],
         link |-> RelativeTo(page_path_for_dir(child, root_dir, out_dir), page_dir),
         readme_title |-> IF readme = EmptyPath THEN <<>>
                          ELSE ReadmeTitle(d[readme].bytes),
         readme_link |-> IF readme = EmptyPath THEN <<>>
                         ELSE <<"..", "..", "..">> \o RelativeTo(readme, root_dir)]

\* The key the records of a page are sorted on: r.path.name.lower()
RecKey(r) == Lower(PathName(r.path))

\* sorted(recs, key=RecKey) of a list: stable, so records with equal keys keep
\* the order they have in the list.
RECURSIVE InsertByKey(_, _)
InsertByKey(sorted, r) ==
    IF sorted = <<>> THEN <<r>>
    ELSE IF StrLess(RecKey(r), RecKey(Head(sorted)))
         THEN <<r>> \o sorted
         ELSE <<Head(sorted)>> \o InsertByKey(Tail(sorted), r)

RECURSIVE SortRecords(_)
SortRecords(recs) ==
    IF recs = <<>> THEN <<>>
    ELSE InsertByKey(SortRecords(SubSeq(recs, 1, Len(recs) - 1)), recs[Len(recs)])

\* What the template is rendered with for directory dir (the timestamp left
\* out); order is the sorted all_dirs.
PageOf(d, dir, order, recs, root_dir, out_dir) ==
    LET grouped == group_by_directory(recs)
        kids == SelectSeq(order, LAMBDA c : Parent(c) = dir /\ c # dir)
        page_dir == Parent(page_path_for_dir(dir, root_dir, out_dir))
    IN  [directory |-> dir,
         subdirs |-> [i \in 1..Len(kids) |->
                        SubdirEntry(d, kids[i], page_dir, root_dir, out_dir)],
         records |-> SortRecords(IF dir \in DOMAIN grouped THEN grouped[dir]
                                 ELSE <<>>)]

\* write_directory_pages, for one iteration order of the set all_dirs: the
\* pages written, in the order written, and whether the loop was ended by the
\* ValueError of page_path_for_dir, which ends it at the first directory of
\* the order that is neither root_dir nor beneath it.
write_directory_pages(d, recs, out_dir, root_dir, order) ==
    LET bad == {i \in 1..Len(order) : ~PageOk(order[i], root_dir)}
        stop == IF bad = {} THEN Len(order) + 1
                ELSE CHOOSE i \in bad : \A j \in bad : i <= j
    IN  [raised |-> bad # {},
         writes |-> [i \in 1..(stop - 1) |->
                       [dir |-> order[i],
                        path |-> page_path_for_dir(order[i], root_dir, out_dir),
                        page |-> PageOf(d, order[i], order, recs, root_dir, out_dir)]]]

\* The file system after a sequence of files has been written.
WriteFiles(d, paths, content) ==
    [q \in DOMAIN d \cup paths |-> IF q \in paths THEN content ELSE d[q]]

----------------------------------------------------------------------------
(* cli.py: one run of the command, and a second run on what the first left *)

\* The most files the source tree holds before the first run.
MaxFiles == 2

\* The command is run this many times on the tree.
MaxRuns == 2

\* The places a source file may lie at.
SourceUniverse ==
    {<<"r", "a.stl">>, <<"r", "A.stl">>,
     <<"r", "A", "a.stl">>, <<"r", "A", "p.lbrn2">>, <<"r", "A", "p.lbrn">>,
     <<"r", "A", "p_thumbnail.png">>, <<"r", "A", "README.md">>,
     <<"r", "B", "C", "b.SCAD">>}

\* The documents the laser-project files of the tree may hold.
TreeDocs == {"png_notes", "attr_jpg"}

\* The targets of the command line: directories, single files and glob
\* patterns; each names nothing in the trees that lack it.
Targets ==
    {<<"r">>, <<"r", "A">>, <<"r", "a.stl">>, <<"r", "A", "p_thumbnail.png">>,
     <<"r", "*.stl">>, <<"r", "*", "a.stl">>, <<"r", "**", "*.stl">>}

\* The values of -o: the default file name in a directory outside the tree, or
\* in the scanned directory itself.
Outputs == {<<"w", "lightburn_notes.md">>, <<"r", "lightburn_notes.md">>}

\* The laser-project files among them.
ProjectFiles == {q \in SourceUniverse : Lower(SuffixOf(PathName(q))) \in LIKELY_EXTS}

\* A source tree: the files of S, the laser-project files holding the documents
\* docs gives them, a README its text.
Tree(S, docs) ==
    [q \in S |->
        IF q \in ProjectFiles THEN [doc |-> docs[q], bytes |-> <<>>]
        ELSE IF q[Len(q)] = "README.md" THEN Blob(TxtCrLf)
        ELSE Blob(<<>>)]

NoPrev == [pc |-> "none", exc |-> "", files |-> <<>>, records |-> <<>>, pages |-> {}]

NoInput == [path |-> EmptyPath, overwrite |-> FALSE, before |-> <<>>]

NoInfo == LightBurnInfo(EmptyPath, <<>>, EmptyPath, "")

Init ==
    /\ \E S \in SUBSET SourceUniverse, docs \in [ProjectFiles -> TreeDocs] :
          /\ 1 <= Cardinality(S) /\ Cardinality(S) <= MaxFiles
          /\ disk = Tree(S, docs)
    /\ \E t \in Targets, rec \in BOOLEAN, o \in Outputs :
          args = [target |-> t, recursive |-> rec, output |-> o]
    /\ registry \in load_plugins
    /\ pc = "start"
    /\ files = <<>>
    /\ idx = 0
    /\ records = <<>>
    /\ calls = <<>>
    /\ exc = ""
    /\ all_dirs = {}
    /\ pages = <<>>
    /\ report = <<>>
    /\ run = 1
    /\ prev = NoPrev
    /\ xin = NoInput
    /\ info = NoInfo

\* scan, first line: files = resolve_inputs(target, recursive)
Resolve ==
    /\ pc = "start"
    /\ \E fs \in resolve_inputs(disk, args.target, args.recursive) : files' = fs
    /\ pc' = "scan"
    /\ UNCHANGED <<disk, args, registry, idx, records, calls, exc, all_dirs, pages,
                   report, run, prev, xin, info>>

\* The plugins that claim path p, by their place in the registry.
Claimants(p) == {i \in 1..Len(registry) : can_handle(registry[i], disk, p)}

\* The first plugin in registry order that claims p.
FirstClaimant(p) == registry[CHOOSE i \in Claimants(p) : \A j \in Claimants(p) : i <= j]

\* What one plugin.index call adds to the calls of the run.
Call(plugin, p, r) == [plugin |-> plugin, path |-> p, ok |-> r.ok, rec |-> r.rec]

\* scan, one turn of the loop for a path some plugin claims and whose index
\* returns: the record is appended.
ScanIndex ==
    /\ pc = "scan" /\ idx < Len(files)
    /\ Claimants(files[idx + 1]) # {}
    /\ \E plugin \in {FirstClaimant(files[idx + 1])} :
       \E r \in {index(plugin, disk, files[idx + 1])} :
          /\ r.ok
          /\ records' = Append(records, r.rec)
          /\ disk' = r.disk
          /\ calls' = Append(calls, Call(plugin, files[idx + 1], r))
    /\ idx' = idx + 1
    /\ UNCHANGED <<args, registry, pc, files, exc, all_dirs, pages, report, run, prev,
                   xin, info>>

\* scan, one turn of the loop for a path some plugin claims and whose index
\* raises: the exception leaves scan and main, and the process ends on it.
ScanRaise ==
    /\ pc = "scan" /\ idx < Len(files)
    /\ Claimants(files[idx + 1]) # {}
    /\ \E plugin \in {FirstClaimant(files[idx + 1])} :
       \E r \in {index(plugin, disk, files[idx + 1])} :
          /\ ~r.ok
          /\ disk' = r.disk
          /\ calls' = Append(calls, Call(plugin, files[idx + 1], r))
    /\ pc' = "crashed"
    /\ exc' = "TypeError"
    /\ UNCHANGED <<args, registry, files, idx, records, all_dirs, pages, report, run,
                   prev, xin, info>>

\* scan, one turn of the loop for a path no plugin claims: the for-else skips it.
ScanSkip ==
    /\ pc = "scan" /\ idx < Len(files)
    /\ Claimants(files[idx + 1]) = {}
    /\ idx' = idx + 1
    /\ UNCHANGED <<disk, args, registry, pc, files, records, calls, exc, all_dirs,
                   pages, report, run, prev, xin, info>>

\* main: scan has returned; "if not records: ... return 2"
CheckRecords ==
    /\ pc = "scan" /\ idx = Len(files)
    /\ pc' = IF records = <<>> THEN "exit2" ELSE "report"
    /\ UNCHANGED <<disk, args, registry, files, idx, records, calls, exc, all_dirs,
                   pages, report, run, prev, xin, info>>

\* main: write_markdown_report(records, out_path)
WriteReport ==
    /\ pc = "report"
    /\ report' = <<records>>
    /\ disk' = WriteFiles(disk, {args.output}, Blob(<<>>))
    /\ pc' = "pages"
    /\ UNCHANGED <<args, registry, files, idx, records, calls, exc, all_dirs, pages,
                   run, prev, xin, info>>

\* main: the root_dir argument it passes to write_directory_pages: the target
\* when it is a directory, else the parent of the target taken as a path.
RootDir == IF IsDir(disk, args.target) THEN args.target ELSE Parent(args.target)

\* main: out_dir = out_path.parent
OutDir == Parent(args.output)

\* main: write_directory_pages(records, out_dir, root_dir), then return 0
WritePages ==
    /\ pc = "pages"
    /\ all_dirs' = AllDirs(records, RootDir)
    /\ \E order \in SortedOrders(AllDirs(records, RootDir)) :
       \E w \in {write_directory_pages(disk, records, OutDir, RootDir, order)} :
              /\ pages' = w.writes
              /\ disk' = WriteFiles(disk, {w.writes[i].path : i \in 1..Len(w.writes)},
                                    Blob(<<>>))
              /\ pc' = IF w.raised THEN "crashed" ELSE "done"
              /\ exc' = IF w.raised THEN "ValueError" ELSE ""
    /\ UNCHANGED <<args, registry, files, idx, records, calls, report, run, prev, xin,
                   info>>

\* The command has ended: it returned 0 or 2, or an exception ended it.
Ended == pc \in {"done", "exit2", "crashed"}

\* What a run leaves for comparison with the next: how it ended, the list it
\* resolved, its records, and the pages it wrote.
Outcome ==
    [pc |-> pc, exc |-> exc, files |-> files, records |-> records,
     pages |-> {pages[i] : i \in 1..Len(pages)}]

\* The command is run again, with the same arguments, on the tree as the run
\* before left it.
Rerun ==
    /\ Ended /\ run < MaxRuns
    /\ prev' = Outcome
    /\ run' = run + 1
    /\ pc' = "start"
    /\ files' = <<>>
    /\ idx' = 0
    /\ records' = <<>>
    /\ calls' = <<>>
    /\ exc' = ""
    /\ all_dirs' = {}
    /\ pages' = <<>>
    /\ report' = <<>>
    /\ UNCHANGED <<disk, args, registry, xin, info>>

Next ==
    \/ Resolve
    \/ ScanIndex
    \/ ScanRaise
    \/ ScanSkip
    \/ CheckRecords
    \/ WriteReport
    \/ WritePages
    \/ Rerun

Spec == Init /\ [][Next]_vars

----------------------------------------------------------------------------
(* resolve_inputs called twice on a tree that nothing changes in between *)

InitResolve ==
    /\ \E S \in SUBSET SourceUniverse, docs \in [ProjectFiles -> TreeDocs] :
          /\ 1 <= Cardinality(S) /\ Cardinality(S) <= MaxFiles
          /\ disk = Tree(S, docs)
    /\ \E t \in Targets, rec \in BOOLEAN :
          args = [target |-> t, recursive |-> rec, output |-> EmptyPath]
    /\ registry = <<"lightburn", "stl", "scad">>
    /\ pc = "resolve1"
    /\ files = <<>>
    /\ idx = 0
    /\ records = <<>>
    /\ calls = <<>>
    /\ exc = ""
    /\ all_dirs = {}
    /\ pages = <<>>
    /\ report = <<>>
    /\ run = 1
    /\ prev = NoPrev
    /\ xin = NoInput
    /\ info = NoInfo

\* The first call of resolve_inputs(target, recursive).
ResolveFirst ==
    /\ pc = "resolve1"
    /\ \E fs \in resolve_inputs(disk, args.target, args.recursive) : files' = fs
    /\ pc' = "resolve2"
    /\ UNCHANGED <<disk, args, registry, idx, records, calls, exc, all_dirs, pages,
                   report, run, prev, xin, info>>

\* The second call, in another process: the first result is kept in prev.
ResolveSecond ==
    /\ pc = "resolve2"
    /\ prev' = [NoPrev EXCEPT !.pc = "resolved", !.files = files]
    /\ \E fs \in resolve_inputs(disk, args.target, args.recursive) : files' = fs
    /\ pc' = "resolved"
    /\ UNCHANGED <<disk, args, registry, idx, records, calls, exc, all_dirs, pages,
                   report, run, xin, info>>

NextResolve == ResolveFirst \/ ResolveSecond

SpecResolve == InitResolve /\ [][NextResolve]_vars

----------------------------------------------------------------------------
(* extract_notes_and_thumbnail called on one laser-project file *)

\* The thumbnail files that may lie beside the project file before the call.
OldThumbnails ==
    {<<"r", "A", "p_thumbnail.png">>, <<"r", "A", "p_thumbnail.jpg">>,
     <<"r", "A", "p_thumbnail.gif">>, <<"r", "A", "p_thumbnail.bin">>}

\* What such a file holds.
OldBytes == <<111, 108, 100>>

InitExtract ==
    /\ \E p \in ProjectFiles, id \in DocIds, old \in SUBSET OldThumbnails,
          ow \in BOOLEAN :
          /\ disk = [q \in {p} \cup old |->
                        IF q = p THEN [doc |-> id, bytes |-> <<>>] ELSE Blob(OldBytes)]
          /\ xin = [path |-> p, overwrite |-> ow, before |-> disk]
    /\ args = [target |-> EmptyPath, recursive |-> FALSE, output |-> EmptyPath]
    /\ registry = <<"lightburn", "stl", "scad">>
    /\ pc = "call"
    /\ files = <<>>
    /\ idx = 0
    /\ records = <<>>
    /\ calls = <<>>
    /\ exc = ""
    /\ all_dirs = {}
    /\ pages = <<>>
    /\ report = <<>>
    /\ run = 1
    /\ prev = NoPrev
    /\ info = NoInfo

\* extract_notes_and_thumbnail(path, overwrite_thumbnail=overwrite)
ExtractCall ==
    /\ pc = "call"
    /\ \E x \in {extract_notes_and_thumbnail(disk, xin.path, xin.overwrite)} :
          /\ info' = x.info
          /\ disk' = x.disk
    /\ pc' = "returned"
    /\ UNCHANGED <<args, registry, files, idx, records, calls, exc, all_dirs, pages,
                   report, run, prev, xin>>

NextExtract == ExtractCall

SpecExtract == InitExtract /\ [][NextExtract]_vars

----------------------------------------------------------------------------
(* extract_thumbnail called on one laser-project file *)

\* extract_thumbnail(path, overwrite=overwrite): exc is what it raised, info the
\* path it returned.
ThumbnailCall ==
    /\ pc = "call"
    /\ \E th \in {extract_thumbnail(disk, xin.path, xin.overwrite)} :
          /\ exc' = th.exc
          /\ info' = th.path
          /\ disk' = th.disk
    /\ pc' = "thumbnail_returned"
    /\ UNCHANGED <<args, registry, files, idx, records, calls, all_dirs, pages,
                   report, run, prev, xin>>

NextThumbnail == ThumbnailCall

SpecThumbnail == InitExtract /\ [][NextThumbnail]_vars

----------------------------------------------------------------------------
(* Properties *)

\* The extensions extract_thumbnail can give a thumbnail file.
ThumbnailExts == {ExtPng, ExtJpg, ExtGif, ExtWebp, ExtBin}

\* A file name of the form <stem>_thumbnail<ext>.
IsThumbnailName(cs) == \E e \in ThumbnailExts : EndsWith(cs, ThumbnailMarker \o e)

\* write_directory_pages has run (to its end, or to the ValueError).
PagesRan == pc = "done" \/ (pc = "crashed" /\ exc = "ValueError")

\* The directories that own a record.
Owners == {records[i].directory : i \in 1..Len(records)}

\* The prefixes of a path: the path and the directories above it.
Prefixes(d) == {SubSeq(d, 1, k) : k \in 0..Len(d)}

\* C1: every plugin.index call returns a record whose path is the path given
\* and whose directory is that path's parent, and raises nothing.
C1_IndexNeverRaises ==
    \A i \in 1..Len(calls) :
        /\ calls[i].ok
        /\ calls[i].rec.path = calls[i].path
        /\ calls[i].rec.directory = Parent(calls[i].path)

\* The paths of files the loop of scan has taken up: those dispatched, and the
\* one whose index call raised.
TakenUp ==
    SubSeq(files, 1, IF pc = "crashed" /\ exc = "TypeError" THEN idx + 1 ELSE idx)

\* C2: scan has appended exactly one record for each path taken up so far that
\* some plugin claims, in the order of the resolved list, each produced by the
\* first plugin in registry order that claims the path, and none for a path no
\* plugin claims.
C2_OneRecordPerClaimedPath ==
    LET claimed == SelectSeq(TakenUp, LAMBDA q : Claimants(q) # {})
    IN  /\ Len(records) = Len(claimed)
        /\ \A i \in 1..Len(records) :
              /\ records[i].path = claimed[i]
              /\ calls[i].plugin = FirstClaimant(claimed[i])
              /\ calls[i].rec = records[i]
        /\ \A i, j \in 1..Len(records) : records[i].path = records[j].path => i = j

\* C3: no path in the list resolve_inputs returned is named
\* <stem>_thumbnail<ext> for an extension the extractor can write.
C3_NoThumbnailResolved ==
    \A i \in 1..Len(files) : ~IsThumbnailName(PathName(files[i]))

\* C4: two calls of resolve_inputs with the same arguments on an unchanged tree
\* return the same list, which has no duplicates and is non-decreasing under
\* the lower-cased string of the path.
C4_ResolveDeterministic ==
    pc = "resolved" =>
        /\ files = prev.files
        /\ \A i, j \in 1..Len(files) : files[i] = files[j] => i = j
        /\ \A i, j \in 1..Len(files) :
              i < j => ~StrLess(SortKey(files[j]), SortKey(files[i]))

\* C5: the directory set of write_directory_pages is ancestor-closed up to the
\* scan root: with a directory it holds every directory above it that is the
\* root or lies beneath the root; and only the root (or the root of the file
\* system) is in the set without its parent.
C5_AncestorClosed ==
    PagesRan =>
        \A d \in all_dirs :
            /\ \A a \in Prefixes(d) : IsRelativeTo(a, RootDir) => a \in all_dirs
            /\ d # RootDir => Parent(d) \in all_dirs

\* C5's case: a directory two or more levels beneath the root is in the set,
\* and its parent, which owns no record, had to be added by the walk.
C5_Witness ==
    /\ PagesRan
    /\ \E d \in all_dirs :
          /\ IsRelativeTo(d, RootDir)
          /\ Len(d) >= Len(RootDir) + 2
          /\ Parent(d) \notin Owners

\* The page written for directory d.
PageFor(d) == {pages[i] : i \in {j \in 1..Len(pages) : pages[j].dir = d}}

\* C6: when every owning directory is the root or beneath it, the directory set
\* is exactly the root, the owning directories and the directories between
\* them and the root; and the root's page lists as subdirectories the members
\* of the set directly beneath the root and as records those whose directory
\* is the root.
C6_ExactDirectorySet ==
    (PagesRan /\ \A o \in Owners : IsRelativeTo(o, RootDir)) =>
        /\ all_dirs = {RootDir} \cup
              {a \in UNION {Prefixes(o) : o \in Owners} : IsRelativeTo(a, RootDir)}
        /\ \E w \in PageFor(RootDir) :
              /\ PageFor(RootDir) = {w}
              /\ {w.page.subdirs[i].name : i \in 1..Len(w.page.subdirs)}
                   = {d[Len(d)] : d \in {x \in all_dirs :
                                           Len(x) = Len(RootDir) + 1}}
              /\ Len(w.page.subdirs)
                   = Cardinality({x \in all_dirs : Len(x) = Len(RootDir) + 1})
              /\ {w.page.records[i] : i \in 1..Len(w.page.records)}
                   = {records[i] : i \in {j \in 1..Len(records) :
                                            records[j].directory = RootDir}}

\* C6's case: the tree root/A/file1, root/B/C/file2: the set is {root, root/A,
\* root/B, root/B/C} and the root's page has the entries A and B and no record.
C6_Witness ==
    /\ pc = "done"
    /\ RootDir = <<"r">>
    /\ Owners = {<<"r", "A">>, <<"r", "B", "C">>}
    /\ all_dirs = {<<"r">>, <<"r", "A">>, <<"r", "B">>, <<"r", "B", "C">>}
    /\ \E w \in PageFor(<<"r">>) :
          /\ Len(w.page.subdirs) = 2
          /\ w.page.subdirs[1].name = "A" /\ w.page.subdirs[2].name = "B"
          /\ w.page.records = <<>>

\* C7: every directory of the set has exactly one page, at
\* <out_dir>/dirs/<directory relative to the root>/index.md; no two directories
\* share a page path; a page lists as subdirectories exactly the members of the
\* set whose parent is its directory, each with a link that leads, from the
\* directory of the page, to the child's own page.
C7_EveryDirectoryHasItsPage ==
    PagesRan =>
        /\ \A d \in all_dirs :
              \E w \in PageFor(d) :
                  /\ PageFor(d) = {w}
                  /\ IsRelativeTo(d, RootDir)
                  /\ w.path = OutDir \o <<"dirs">> \o RelativeTo(d, RootDir)
                                \o <<"index.md">>
                  /\ {Parent(w.path) \o w.page.subdirs[i].link :
                          i \in 1..Len(w.page.subdirs)}
                       = {v.path : v \in UNION {PageFor(c) :
                              c \in {x \in all_dirs : Parent(x) = d /\ x # d}}}
                  /\ Len(w.page.subdirs)
                       = Cardinality({x \in all_dirs : Parent(x) = d /\ x # d})
        /\ \A i, j \in 1..Len(pages) : pages[i].path = pages[j].path => i = j

\* C8: the second run on the tree the first run left ends as the first did,
\* with the same record list and the same pages.
C8_RerunSameOutcome ==
    (run = 2 /\ Ended) =>
        /\ pc = prev.pc
        /\ records = prev.records
        /\ {pages[i] : i \in 1..Len(pages)} = prev.pages

\* C9: when the document parses and extract_thumbnail fails, the result keeps
\* the notes, has the blank thumbnail path and a non-empty error.
C9_ThumbnailFailureReported ==
    (/\ pc = "returned"
     /\ WellFormed(xin.before[xin.path].doc)
     /\ extract_thumbnail(xin.before, xin.path, xin.overwrite).exc # "") =>
        /\ info.notes = NotesOf(DocRoot(xin.before[xin.path].doc))
        /\ info.thumbnail_path = EmptyPath
        /\ info.error # ""

\* C10: the command returns its non-zero status before rendering exactly when
\* the resolver found no file, and then nothing has been written.
C10_FatalOnlyWhenNothingResolved ==
    /\ pc = "exit2" => files = <<>> /\ report = <<>> /\ pages = <<>>
    /\ pc \in {"report", "pages", "done"} => files # <<>>

\* The decoded thumbnail payload of the document the call was given.
GivenPayload ==
    _decode_b64(_find_thumbnail_b64(DocRoot(xin.before[xin.path].doc)).b64)

\* The call was given a document that parses and holds a decodable payload.
GivenDecodes ==
    /\ WellFormed(xin.before[xin.path].doc)
    /\ _find_thumbnail_b64(DocRoot(xin.before[xin.path].doc)).ok
    /\ GivenPayload.ok

\* <stem>_thumbnail<sniffed ext> beside the source of the call.
GivenOutput == ThumbnailOutputPath(xin.path, _sniff_extension(GivenPayload.blob))

\* C11: extract_thumbnail without overwrite, when a file lies at the output
\* path, raises FileExistsError (which is not the error of a missing
\* thumbnail) and leaves that file and the rest of the tree as they were; with
\* overwrite it returns the output path and the file holds the decoded bytes.
C11_ExistingOutputKept ==
    (pc = "thumbnail_returned" /\ GivenDecodes) =>
        /\ (GivenOutput \in DOMAIN xin.before /\ ~xin.overwrite) =>
              /\ exc = "FileExistsError"
              /\ exc # ThumbnailFails(disk, "ValueError: No thumbnail found").exc
              /\ disk = xin.before
        /\ (GivenOutput \notin DOMAIN xin.before \/ xin.overwrite) =>
              /\ exc = ""
              /\ info = GivenOutput
              /\ disk[GivenOutput] = Blob(GivenPayload.blob)
              /\ \A q \in DOMAIN xin.before \ {GivenOutput} : disk[q] = xin.before[q]

\* C11's case: the call without overwrite met a file at its output path.
C11_Witness ==
    /\ pc = "thumbnail_returned"
    /\ GivenDecodes
    /\ GivenOutput \in DOMAIN xin.before
    /\ ~xin.overwrite
    /\ exc = "FileExistsError"
    /\ disk[GivenOutput] = Blob(OldBytes)

\* C12: the notes of a document that parses are those of the first element
\* tagged Notes anywhere in the tree, the root included: its Notes attribute
\* when that is not empty, else its text; they hold no carriage return and no
\* white space at either end; with no Notes element the notes and the error
\* are empty.
C12_NotesFromFirstElement ==
    LET first == WithTag(Iter(DocRoot(xin.before[xin.path].doc)), "Notes")
    IN  (pc = "returned" /\ WellFormed(xin.before[xin.path].doc)) =>
            /\ first = <<>> => info.notes = <<>> /\ info.error = ""
            /\ first # <<>> =>
                  info.notes = Strip(NormalizeNewlines(
                      IF Strip(first[1].Notes) # <<>> THEN first[1].Notes
                      ELSE first[1].text))
            /\ \A i \in 1..Len(info.notes) : info.notes[i] # 13
            /\ Strip(info.notes) = info.notes

\* C13: every subdirectory entry whose child directory holds README.md or
\* README.txt carries a readme_link that, followed from the directory of the
\* page that lists the entry, leads to that README file (README.md before
\* README.txt), and a title that is the stripped first line of the file.
C13_ReadmeLinkLeadsToReadme ==
    PagesRan =>
        \A i \in 1..Len(pages) :
            \A k \in 1..Len(pages[i].page.subdirs) :
                LET e == pages[i].page.subdirs[k]
                    child == pages[i].dir \o <<e.name>>
                    readme == IF IsFile(disk, child \o <<"README.md">>)
                              THEN child \o <<"README.md">>
                              ELSE child \o <<"README.txt">>
                    page_dir == Parent(pages[i].path)
                    ups == Cardinality({n \in 1..Len(e.readme_link) :
                               \A j \in 1..n : e.readme_link[j] = ".."})
                    kept == IF Len(page_dir) > ups THEN Len(page_dir) - ups ELSE 0
                IN  IsFile(disk, readme) =>
                        /\ SubSeq(page_dir, 1, kept)
                             \o SubSeq(e.readme_link, ups + 1, Len(e.readme_link))
                             = readme
                        /\ e.readme_title = Strip(FirstLine(disk[readme].bytes))

\* C14: the directory of every record scan returned is the scan root the
\* command derives from its target, or lies beneath it; so the ancestor walk
\* adds nothing outside the root and no page path fails to be computed.
C14_RecordsBeneathRoot ==
    /\ \A i \in 1..Len(records) : IsRelativeTo(records[i].directory, RootDir)
    /\ PagesRan =>
          /\ \A d \in all_dirs : IsRelativeTo(d, RootDir)
          /\ <<>> \in all_dirs => RootDir = <<>>
          /\ exc # "ValueError"

\* C15: within one scan no thumbnail is written to a path of the resolved
\* list of that scan, and no two records carry the same thumbnail path unless
\* it is the blank one.
C15_ThumbnailsApartFromSources ==
    /\ \A i \in 1..Len(calls) :
          calls[i].plugin = "lightburn" =>
              \E th \in {extract_thumbnail(disk, calls[i].path, TRUE)} :
                  th.exc = "" => \A j \in 1..Len(files) : files[j] # th.path
    /\ \A i, j \in 1..Len(records) :
          (i # j /\ records[i].thumbnail_path # EmptyPath) =>
              records[i].thumbnail_path # records[j].thumbnail_path

====
